---- MODULE Spec2Model ----
(***************************************************************************)
(* The form store and inverted index of POD: writeFormFile, indexFile,     *)
(* filesMatchingQuery and the HTTP handler that calls them, as a state     *)
(* machine over the shared variables guarded by the RWMutex mu; and the    *)
(* handlers of pod.go, which put users, sessions and imported templates    *)
(* in front of the same store.                                             *)
(*                                                                         *)
(* A Go string is a sequence of one-character strings, so that             *)
(* strings.TrimSpace is computed and not assumed.  A map[string][]string   *)
(* is a function from such strings to sequences of such strings; a key     *)
(* the map does not hold is outside its DOMAIN.                            *)
(***************************************************************************)
EXTENDS Integers, Sequences, FiniteSets, TLC

\* The request-handling goroutines net/http runs at the same time.
NumProcs == 2
\* The submissions one behaviour accepts (POST requests past validation).
MaxFiles == 2
\* The submissions one behaviour of pod.go accepts (requests to /api/query).
MaxPodFiles == 1
\* The sessions one behaviour opens (calls of newSession).
MaxSessions == 2

Procs == 1..NumProcs
None == 0

VARIABLES
  clock,        \* the last value time.Now().UnixNano() returned
  disk,         \* the base names that have an HTML file in storageFolder
  storedFiles,  \* []string: base names in insertion order
  keyToFiles,   \* map[string][]string: key -> base names
  valueToFiles, \* map[string][]string: value -> base names
  applied,      \* history: each indexFile call in lock order, its arguments (id, values) and
                \* the keys of keyToFiles and of valueToFiles it has appended to (keys, vals)
  muWriter,     \* the goroutine holding mu.Lock(), or None
  muReaders,    \* the goroutines holding mu.RLock()
  pc,           \* each goroutine's position in handler
  req,          \* each goroutine's r.PostForm (POST) or r.URL.Query() (GET)
  base,         \* each goroutine's baseName
  todo,         \* each goroutine's keys of `values` the range loop has not visited yet
  result,       \* each goroutine's `matching`
  status,       \* each goroutine's HTTP status, once the handler has written it
  users,        \* map[string]*userRec: username -> record
  sessions,     \* map[string]string: session id -> username ("" for a guest)
  nextSessNum,  \* the counter newSession numbers the sessions with
  templates,    \* map[string]string: file name -> wrapped HTML
  issued,       \* history: every session id newSession has returned
  loc           \* each goroutine's request and locals in a handler of pod.go

podShared == <<users, sessions, nextSessNum, templates, issued>>

pod == <<podShared, loc>>

vars == <<clock, disk, storedFiles, keyToFiles, valueToFiles, applied,
          muWriter, muReaders, pc, req, base, todo, result, status, pod>>

shared == <<storedFiles, keyToFiles, valueToFiles>>

-----------------------------------------------------------------------------
(* Strings *)

\* unicode.IsSpace, on the characters the inputs are built from.
IsSpace(c) == c \in {" ", "\t", "\n"}

RECURSIVE TrimLeft(_)
TrimLeft(s) == IF s # <<>> /\ IsSpace(Head(s)) THEN TrimLeft(Tail(s)) ELSE s

RECURSIVE TrimRight(_)
TrimRight(s) ==
  IF s # <<>> /\ IsSpace(s[Len(s)]) THEN TrimRight(SubSeq(s, 1, Len(s) - 1)) ELSE s

\* strings.TrimSpace: the string without its leading and trailing white space.
TrimSpace(s) == TrimRight(TrimLeft(s))

\* fmt.Sprintf("form_%d", ts): injective in ts.
FormName(ts) == <<"form_", ts>>

-----------------------------------------------------------------------------
(* Go maps and slices *)

SeqToSet(s) == {s[i] : i \in 1..Len(s)}

\* m[k] of a Go map: the zero value (a nil slice) for a key it does not hold.
Lookup(m, k) == IF k \in DOMAIN m THEN m[k] ELSE <<>>

\* MapAppend as it would be if the list were replaced: m[k] = []string{x}
MapAssign(m, k, x) ==
  [kk \in DOMAIN m \cup {k} |-> IF kk = k THEN <<x>> ELSE m[kk]]

\* m[k] = append(m[k], x)
MapAppend(m, k, x) ==
  [kk \in DOMAIN m \cup {k} |-> IF kk = k THEN Append(Lookup(m, k), x) ELSE m[kk]]

\* The keys whose list is longer in map n than in map m.
Grown(m, n) == {k \in DOMAIN n : Len(n[k]) > Len(Lookup(m, k))}

\* The orders in which a range loop may visit the keys of a map.
Orders(S) ==
  {o \in [1..Cardinality(S) -> S] : \A i, j \in 1..Cardinality(S) : o[i] = o[j] => i = j}

-----------------------------------------------------------------------------
(* indexFile's loop body *)

\* IndexKeyEntry as it would be if the key were filed as submitted.
IndexKeyEntryRaw(k2f, baseName, k) ==
  IF TrimSpace(k) = <<>> THEN k2f ELSE MapAppend(k2f, k, baseName)

\* IndexKeyEntry as it would be without the blank-key test.
IndexKeyEntryNoSkip(k2f, baseName, k) == MapAppend(k2f, TrimSpace(k), baseName)

\* Lines 129-133: the key is trimmed, skipped when blank, else the file is
\* appended to its list.
IndexKeyEntry(k2f, baseName, k) ==
  IF TrimSpace(k) = <<>> THEN k2f ELSE MapAppend(k2f, TrimSpace(k), baseName)

\* IndexValues as it would be if a blank value ended the loop (break for continue).
RECURSIVE IndexValuesBreak(_, _, _)
IndexValuesBreak(v2f, baseName, vals) ==
  IF vals = <<>> \/ TrimSpace(Head(vals)) = <<>> THEN v2f
  ELSE IndexValuesBreak(MapAppend(v2f, TrimSpace(Head(vals)), baseName), baseName, Tail(vals))

\* IndexValues as it would be if the value were filed as submitted.
RECURSIVE IndexValuesRaw(_, _, _)
IndexValuesRaw(v2f, baseName, vals) ==
  IF vals = <<>> THEN v2f
  ELSE IndexValuesRaw(IF TrimSpace(Head(vals)) = <<>> THEN v2f
                      ELSE MapAppend(v2f, Head(vals), baseName),
                      baseName, Tail(vals))

\* Lines 135-141: each value is trimmed, skipped when blank, else the file is
\* appended to its list.
RECURSIVE IndexValues(_, _, _)
IndexValues(v2f, baseName, vals) ==
  IF vals = <<>> THEN v2f
  ELSE LET v == TrimSpace(Head(vals))
       IN IndexValues(IF v = <<>> THEN v2f ELSE MapAppend(v2f, v, baseName),
                      baseName, Tail(vals))

-----------------------------------------------------------------------------
(* filesMatchingQuery *)

\* EmptyQueryResult as it would be if the empty query matched nothing.
EmptyQueryNothing == <<>>

\* Lines 154-158: the empty query returns a copy of storedFiles.
EmptyQueryResult == storedFiles

\* FieldCandidates as it would be if values the index has never seen were
\* no constraint.
FieldCandidatesLenient(qk, qvs) ==
  LET tmp == SeqToSet(Lookup(keyToFiles, qk))
      named == UNION {SeqToSet(Lookup(valueToFiles, qvs[i])) : i \in 1..Len(qvs)}
  IN IF named # {} THEN {fn \in named : fn \in tmp} ELSE tmp

\* FieldCandidates as it would be with the membership test negated.
FieldCandidatesNegated(qk, qvs) ==
  LET tmp == SeqToSet(Lookup(keyToFiles, qk))
      named == UNION {SeqToSet(Lookup(valueToFiles, qvs[i])) : i \in 1..Len(qvs)}
  IN IF Len(qvs) > 0 THEN {fn \in named : fn \notin tmp} ELSE tmp

\* Lines 164-181: the files holding key qk, narrowed, when values are asked
\* for, to those some asked value's list names.
FieldCandidates(qk, qvs) ==
  LET tmp == SeqToSet(Lookup(keyToFiles, qk))
      filtered == {fn \in UNION {SeqToSet(Lookup(valueToFiles, qvs[i])) : i \in 1..Len(qvs)} :
                     fn \in tmp}
  IN IF Len(qvs) > 0 THEN filtered ELSE tmp

\* Narrow as it would be if a later field's set replaced the candidates.
NarrowLast(first, candidateSet, tmp) == tmp

\* Lines 183-194: the first field's set is taken, a later one intersected.
Narrow(first, candidateSet, tmp) ==
  IF first THEN tmp ELSE {fn \in candidateSet : fn \in tmp}

\* MatchLoop as it would be if the loop were left before the empty set is
\* assigned, the candidates of the fields visited so far being kept.
RECURSIVE MatchLoopKeep(_, _, _, _)
MatchLoopKeep(query, order, first, candidateSet) ==
  IF order = <<>> THEN candidateSet
  ELSE LET qk == Head(order)
           newSet == Narrow(first, candidateSet, FieldCandidates(qk, query[qk]))
       IN IF newSet = {} THEN candidateSet
          ELSE MatchLoopKeep(query, Tail(order), FALSE, newSet)

\* Lines 160-198: the loop over the query in the order the range visits it,
\* left at the first empty candidate set.
RECURSIVE MatchLoop(_, _, _, _)
MatchLoop(query, order, first, candidateSet) ==
  IF order = <<>> THEN candidateSet
  ELSE LET qk == Head(order)
           newSet == Narrow(first, candidateSet, FieldCandidates(qk, query[qk]))
       IN IF newSet = {} THEN newSet
          ELSE MatchLoop(query, Tail(order), FALSE, newSet)

RECURSIVE Reverse(_)
Reverse(s) == IF s = <<>> THEN <<>> ELSE Append(Reverse(Tail(s)), Head(s))

\* Project as it would be if the result were built newest-first.
ProjectReversed(candidateSet) ==
  Reverse(SelectSeq(storedFiles, LAMBDA fn : fn \in candidateSet))

\* Lines 200-206: the candidates in the order storedFiles lists them.
Project(candidateSet) == SelectSeq(storedFiles, LAMBDA fn : fn \in candidateSet)

filesMatchingQuery(query, order) ==
  IF DOMAIN query = {} THEN EmptyQueryResult
  ELSE Project(MatchLoop(query, order, TRUE, {}))

-----------------------------------------------------------------------------
(* Inputs *)

a == <<"a">>
b == <<"b">>
c == <<"c">>
x == <<"x">>
y == <<"y">>
z == <<"z">>
\* s with white space on both sides.
Pad(s) == <<" ">> \o s \o <<"\t">>
Blank == <<" ">>

\* The field sets of the concurrent runs.
ConcForms ==
  { a :> <<x>>,
    b :> <<y>>,
    (a :> <<y>>) @@ (b :> <<x>>) }

\* The query of the concurrent runs.
ConcQueries ==
  { b :> <<y>> }

\* The field sets and the queries of the concurrent runs that follow a
\* returned list: the empty query, one that matches and one that does not.
PureForms == { a :> <<x>> }

PureQueries == { <<>>, a :> <<x>>, c :> <<x>> }

\* The field sets of the sequential runs: plain, padded, blank key, blank and
\* empty value, several values, a value under another field, two raw keys
\* with the same trimmed key, and the empty form.
Forms ==
  { <<>>,
    a :> <<x>>,
    Pad(a) :> <<Pad(x)>>,
    b :> <<y>>,
    (a :> <<y>>) @@ (b :> <<x>>),
    Blank :> <<x>>,
    a :> <<Blank, <<>>, y>>,
    b :> <<x, y>>,
    (a :> <<x>>) @@ (Pad(a) :> <<y>>) }

QueryLists == { <<>>, <<x>>, <<y>>, <<x, y>>, <<Pad(x)>>, <<z>>, << <<>> >> }

\* The queries of the sequential runs: the empty query, every one-field query
\* over the keys and value lists above, and the two-field queries on a and b.
Queries ==
  { <<>> }
  \cup { k :> vs : k \in {a, b, c, Pad(a)}, vs \in QueryLists }
  \cup { (a :> va) @@ (b :> vb) : va, vb \in { <<>>, <<x>>, <<y>>, <<x, y>> } }
  \cup { (a :> <<x>>) @@ (c :> <<>>) }

-----------------------------------------------------------------------------
(* Requests to pod.go *)

\* The request carries no sid cookie (r.Cookie returns http.ErrNoCookie).
NoSid == <<>>

\* A goroutine that is in no handler of pod.go: no cookie and empty strings.
NoLoc == [handler |-> "", sid |-> NoSid, user |-> "", arg |-> "", file |-> ""]

-----------------------------------------------------------------------------
(* The handler *)

Init ==
  /\ clock = 1
  /\ disk = {}
  /\ storedFiles = <<>>
  /\ keyToFiles = <<>>
  /\ valueToFiles = <<>>
  /\ applied = <<>>
  /\ muWriter = None
  /\ muReaders = {}
  /\ pc = [p \in Procs |-> "idle"]
  /\ req = [p \in Procs |-> <<>>]
  /\ base = [p \in Procs |-> <<>>]
  /\ todo = [p \in Procs |-> {}]
  /\ result = [p \in Procs |-> <<>>]
  /\ status = [p \in Procs |-> 0]
  /\ users = <<>>
  /\ sessions = <<>>
  /\ nextSessNum = 1
  /\ templates = <<>>
  /\ issued = {}
  /\ loc = [p \in Procs |-> NoLoc]

\* The submissions accepted so far: stored, or on their way to indexFile.
InFlight == {p \in Procs : pc[p] \in {"write", "lock", "append", "keys"}}

\* PostStart as it would be without the test of len(r.PostForm).
PostStartAny(p, form) ==
  /\ pc[p] = "idle"
  /\ Len(storedFiles) + Cardinality(InFlight) < MaxFiles
  /\ pc' = [pc EXCEPT ![p] = "write"]
  /\ req' = [req EXCEPT ![p] = form]
  /\ UNCHANGED pod
  /\ UNCHANGED <<clock, disk, shared, applied, muWriter, muReaders, base, todo, result, status>>

\* case http.MethodPost, lines 255-262: an empty form is answered 400.
PostStart(p, form) ==
  /\ pc[p] = "idle"
  /\ Len(storedFiles) + Cardinality(InFlight) < MaxFiles
  /\ IF DOMAIN form = {}
     THEN /\ pc' = [pc EXCEPT ![p] = "respond"]
          /\ status' = [status EXCEPT ![p] = 400]
          /\ req' = req
     ELSE /\ pc' = [pc EXCEPT ![p] = "write"]
          /\ req' = [req EXCEPT ![p] = form]
          /\ status' = status
  /\ UNCHANGED pod
  /\ UNCHANGED <<clock, disk, shared, applied, muWriter, muReaders, base, todo, result>>

\* WriteFormFileOk as it would be with a tie-breaking counter: every reading of
\* the clock is later than the last.
WriteFormFileUnique(p) ==
  /\ pc[p] = "write"
  /\ clock' = clock + 1
  /\ base' = [base EXCEPT ![p] = FormName(clock + 1)]
  /\ disk' = disk \cup {FormName(clock + 1)}
  /\ pc' = [pc EXCEPT ![p] = "lock"]
  /\ UNCHANGED pod
  /\ UNCHANGED <<shared, applied, muWriter, muReaders, req, todo, result, status>>

\* writeFormFile: the name is the reading of time.Now().UnixNano(), which is
\* no earlier than the last reading and, the clock having a finite resolution
\* and the readings being taken on any goroutine, may equal it; the file is
\* created, or truncated if it exists.
WriteFormFileOk(p) ==
  /\ pc[p] = "write"
  /\ \E ts \in {clock, clock + 1} :
       /\ clock' = ts
       /\ base' = [base EXCEPT ![p] = FormName(ts)]
       /\ disk' = disk \cup {FormName(ts)}
  /\ pc' = [pc EXCEPT ![p] = "lock"]
  /\ UNCHANGED pod
  /\ UNCHANGED <<shared, applied, muWriter, muReaders, req, todo, result, status>>

\* WriteFormFileErr as it would be if the handler dropped the error and
\* went on to indexFile with the name of the file that was not created.
WriteFormFileErrIgnored(p) ==
  /\ pc[p] = "write"
  /\ base' = [base EXCEPT ![p] = FormName(clock + 1)]
  /\ clock' = clock + 1
  /\ pc' = [pc EXCEPT ![p] = "lock"]
  /\ UNCHANGED pod
  /\ UNCHANGED <<disk, shared, applied, muWriter, muReaders, req, todo, result, status>>

\* writeFormFile returns an error (MkdirAll or Create): 500, nothing indexed.
WriteFormFileErr(p) ==
  /\ pc[p] = "write"
  /\ pc' = [pc EXCEPT ![p] = "respond"]
  /\ status' = [status EXCEPT ![p] = 500]
  /\ req' = [req EXCEPT ![p] = <<>>]
  /\ UNCHANGED pod
  /\ UNCHANGED <<clock, disk, shared, applied, muWriter, muReaders, base, todo, result>>

\* IndexLock as it would be if the write lock did not wait for the readers.
IndexLockNoWait(p) ==
  /\ pc[p] = "lock"
  /\ muWriter = None
  /\ muWriter' = p
  /\ pc' = [pc EXCEPT ![p] = "append"]
  /\ UNCHANGED pod
  /\ UNCHANGED <<clock, disk, shared, applied, muReaders, req, base, todo, result, status>>

\* mu.Lock(): waits until no goroutine holds the mutex in either mode.
IndexLock(p) ==
  /\ pc[p] = "lock"
  /\ muWriter = None
  /\ muReaders = {}
  /\ muWriter' = p
  /\ pc' = [pc EXCEPT ![p] = "append"]
  /\ UNCHANGED pod
  /\ UNCHANGED <<clock, disk, shared, applied, muReaders, req, base, todo, result, status>>

\* storedFiles = append(storedFiles, baseName)
IndexAppend(p) ==
  /\ pc[p] = "append"
  /\ storedFiles' = Append(storedFiles, base[p])
  /\ applied' = Append(applied, [id |-> base[p], values |-> req[p], keys |-> {}, vals |-> {}])
  /\ todo' = [todo EXCEPT ![p] = DOMAIN req[p]]
  /\ pc' = [pc EXCEPT ![p] = "keys"]
  /\ UNCHANGED pod
  /\ UNCHANGED <<clock, disk, keyToFiles, valueToFiles, muWriter, muReaders, req, base,
                 result, status>>

\* IndexKey as it would be if the values of a blank key were filed.
IndexKeyAllValues(p) ==
  /\ pc[p] = "keys"
  /\ \E k \in todo[p] :
       /\ keyToFiles' = IndexKeyEntry(keyToFiles, base[p], k)
       /\ valueToFiles' = IndexValues(valueToFiles, base[p], req[p][k])
       /\ todo' = [todo EXCEPT ![p] = todo[p] \ {k}]
  /\ applied' = [applied EXCEPT
                   ![Len(applied)].keys = @ \cup Grown(keyToFiles, keyToFiles'),
                   ![Len(applied)].vals = @ \cup Grown(valueToFiles, valueToFiles')]
  /\ UNCHANGED pod
  /\ UNCHANGED <<clock, disk, storedFiles, muWriter, muReaders, pc, req, base,
                 result, status>>

\* One turn of `for k, vals := range values`, on a key the loop has not
\* visited, in whatever order the map yields.
IndexKey(p) ==
  /\ pc[p] = "keys"
  /\ \E k \in todo[p] :
       /\ keyToFiles' = IndexKeyEntry(keyToFiles, base[p], k)
       /\ valueToFiles' = IF TrimSpace(k) = <<>> THEN valueToFiles
                          ELSE IndexValues(valueToFiles, base[p], req[p][k])
       /\ todo' = [todo EXCEPT ![p] = todo[p] \ {k}]
  /\ applied' = [applied EXCEPT
                   ![Len(applied)].keys = @ \cup Grown(keyToFiles, keyToFiles'),
                   ![Len(applied)].vals = @ \cup Grown(valueToFiles, valueToFiles')]
  /\ UNCHANGED pod
  /\ UNCHANGED <<clock, disk, storedFiles, muWriter, muReaders, pc, req, base,
                 result, status>>

\* The loop is over: the deferred mu.Unlock() runs and the handler answers.
IndexUnlock(p) ==
  /\ pc[p] = "keys"
  /\ todo[p] = {}
  /\ muWriter' = None
  /\ pc' = [pc EXCEPT ![p] = "respond"]
  /\ status' = [status EXCEPT ![p] = 200]
  /\ req' = [req EXCEPT ![p] = <<>>]
  /\ base' = [base EXCEPT ![p] = <<>>]
  /\ UNCHANGED pod
  /\ UNCHANGED <<clock, disk, shared, applied, muReaders, todo, result>>

\* case http.MethodGet, lines 244-245: the match endpoint calls
\* filesMatchingQuery.  r.URL.Query() gives every field at least one value;
\* a field with no values (len(qvs) == 0, line 171) is an argument only
\* another caller of the function can pass, and is drawn here as well.
GetStart(p, query) ==
  /\ pc[p] = "idle"
  /\ pc' = [pc EXCEPT ![p] = "rlock"]
  /\ req' = [req EXCEPT ![p] = query]
  /\ UNCHANGED pod
  /\ UNCHANGED <<clock, disk, shared, applied, muWriter, muReaders, base, todo, result, status>>

\* MatchRLock as it would be if the read lock did not wait for the writer.
MatchRLockNoWait(p) ==
  /\ pc[p] = "rlock"
  /\ muReaders' = muReaders \cup {p}
  /\ pc' = [pc EXCEPT ![p] = "match"]
  /\ UNCHANGED pod
  /\ UNCHANGED <<clock, disk, shared, applied, muWriter, req, base, todo, result, status>>

\* mu.RLock(): waits while a writer holds the mutex.
MatchRLock(p) ==
  /\ pc[p] = "rlock"
  /\ muWriter = None
  /\ muReaders' = muReaders \cup {p}
  /\ pc' = [pc EXCEPT ![p] = "match"]
  /\ UNCHANGED pod
  /\ UNCHANGED <<clock, disk, shared, applied, muWriter, req, base, todo, result, status>>

\* MatchCompute as it would be if reading the list of a key the map does
\* not hold stored an empty list under it.
MatchComputeInsert(p) ==
  /\ pc[p] = "match"
  /\ \E order \in Orders(DOMAIN req[p]) :
       result' = [result EXCEPT ![p] = filesMatchingQuery(req[p], order)]
  /\ keyToFiles' = [k \in DOMAIN keyToFiles \cup DOMAIN req[p] |-> Lookup(keyToFiles, k)]
  /\ pc' = [pc EXCEPT ![p] = "runlock"]
  /\ UNCHANGED pod
  /\ UNCHANGED <<clock, disk, storedFiles, valueToFiles, applied, muWriter, muReaders,
                 req, base, todo, status>>

\* The body of filesMatchingQuery, the query's fields visited in some order.
MatchCompute(p) ==
  /\ pc[p] = "match"
  /\ \E order \in Orders(DOMAIN req[p]) :
       result' = [result EXCEPT ![p] = filesMatchingQuery(req[p], order)]
  /\ pc' = [pc EXCEPT ![p] = "runlock"]
  /\ UNCHANGED pod
  /\ UNCHANGED <<clock, disk, shared, applied, muWriter, muReaders, req, base, todo, status>>

\* The deferred mu.RUnlock() runs; filesMatchingQuery has returned and the
\* handler holds the list, which it renders with the lock released.
MatchRUnlock(p) ==
  /\ pc[p] = "runlock"
  /\ muReaders' = muReaders \ {p}
  /\ pc' = [pc EXCEPT ![p] = "respond"]
  /\ status' = [status EXCEPT ![p] = 200]
  /\ UNCHANGED pod
  /\ UNCHANGED <<clock, disk, shared, applied, muWriter, req, base, todo, result>>

\* The handler returns; the goroutine serves the next request.
Respond(p) ==
  /\ pc[p] = "respond"
  /\ pc' = [pc EXCEPT ![p] = "idle"]
  /\ status' = [status EXCEPT ![p] = 0]
  /\ loc' = [loc EXCEPT ![p] = NoLoc]
  /\ req' = [req EXCEPT ![p] = <<>>]
  /\ result' = [result EXCEPT ![p] = <<>>]
  /\ UNCHANGED podShared
  /\ UNCHANGED <<clock, disk, shared, applied, muWriter, muReaders, base, todo>>

\* One step of goroutine p serving requests drawn from forms and queries.
Step(p, forms, queries) ==
  \/ \E form \in forms : PostStart(p, form)
  \/ WriteFormFileOk(p)
  \/ WriteFormFileErr(p)
  \/ IndexLock(p)
  \/ IndexAppend(p)
  \/ IndexKey(p)
  \/ IndexUnlock(p)
  \/ \E query \in queries : GetStart(p, query)
  \/ MatchRLock(p)
  \/ MatchCompute(p)
  \/ MatchRUnlock(p)
  \/ Respond(p)

\* Concurrent requests.
Next == \E p \in Procs : Step(p, ConcForms, ConcQueries)

Spec == Init /\ [][Next]_vars

\* Concurrent requests, queries of every kind among them.
NextPure == \E p \in Procs : Step(p, PureForms, PureQueries)

SpecPure == Init /\ [][NextPure]_vars

\* One request at a time, over the wider inputs.
NextSeq == Step(1, Forms, Queries)

SpecSeq == Init /\ [][NextSeq]_vars

-----------------------------------------------------------------------------
(* pod.go: sessions, login, registration, logout *)

\* The user names and passwords the requests are drawn from.
Usernames == {"ann"}
Passwords == {"pw", "other"}
\* The passwords users register with.
NewPasswords == {"pw"}

\* genSalt: sixteen random bytes, one value of which is followed here.
genSalt == "salt"

\* hashPassword: SHA-256 of salt and password, injective for all practical
\* purposes and kept as the pair.
hashPassword(salt, password) == <<salt, password>>

\* sessions[sid] of the Go map: "" for an id it does not hold.
SessionUser(sid) == IF sid \in DOMAIN sessions THEN sessions[sid] ELSE ""

\* The goroutines that are in a handler on its way to newSession.
SessionsUnderway ==
  {p \in Procs : pc[p] \in {"reg_lock", "reg_check", "sess_lock", "sess_new"}}

\* One more request that may open a session is within the bound.
SessionBudget == (nextSessNum - 1) + Cardinality(SessionsUnderway) < MaxSessions

\* mu.Lock() can return: no goroutine holds the mutex in either mode.
MuFree == muWriter = None /\ muReaders = {}

\* The frame of a step that touches neither the form store nor its locals.
StoreFrame == UNCHANGED <<disk, shared, applied, req, base, todo, result>>

\* What a handler keeps of its request once it has written its answer.
Answered(handler) == [NoLoc EXCEPT !.handler = handler]

\* loginHandler, POST, lines 161-175: users[username] is read under
\* mu.RLock; an unknown name or a wrong password shows the login page again
\* with its error, else newSession is called.
LoginPost(p, username, password) ==
  /\ pc[p] = "idle"
  /\ muWriter = None
  /\ LET ok == username \in DOMAIN users
     IN IF ~ok \/ users[username].PassHash # hashPassword(users[username].Salt, password)
        THEN /\ pc' = [pc EXCEPT ![p] = "respond"]
             /\ status' = [status EXCEPT ![p] = 200]
             /\ loc' = [loc EXCEPT ![p] = Answered("login")]
        ELSE /\ SessionBudget
             /\ pc' = [pc EXCEPT ![p] = "sess_lock"]
             /\ status' = status
             /\ loc' = [loc EXCEPT ![p] = [NoLoc EXCEPT !.handler = "login",
                                                         !.user = username]]
  /\ StoreFrame
  /\ UNCHANGED <<clock, muWriter, muReaders, podShared>>

\* newSession, line 63: mu.Lock().
SessLock(p) ==
  /\ pc[p] = "sess_lock"
  /\ MuFree
  /\ muWriter' = p
  /\ pc' = [pc EXCEPT ![p] = "sess_new"]
  /\ StoreFrame
  /\ UNCHANGED <<clock, muReaders, status, pod>>

\* SessionId as it would be without the counter: the clock reading alone.
SessionIdNoCounter(ts, n) == <<ts>>

\* fmt.Sprintf("%d-%d", ts, n): injective in the pair.
SessionId(ts, n) == <<ts, n>>

\* newSession, lines 65-68, and the caller's answer: the id is made of the
\* clock reading and the counter, the counter is advanced, the session is
\* stored, the deferred mu.Unlock() runs and the id goes out as the sid
\* cookie.  loginHandler redirects; registerHandler and appHandler (whose
\* username is "" here) render the page.
SessNew(p) ==
  /\ pc[p] = "sess_new"
  /\ \E ts \in {clock, clock + 1} :
       LET id == SessionId(ts, nextSessNum)
       IN /\ clock' = ts
          /\ sessions' = (id :> loc[p].user) @@ sessions
          /\ issued' = issued \cup {id}
  /\ nextSessNum' = nextSessNum + 1
  /\ muWriter' = None
  /\ pc' = [pc EXCEPT ![p] = "respond"]
  /\ status' = [status EXCEPT ![p] = IF loc[p].handler = "login" THEN 303 ELSE 200]
  /\ loc' = [loc EXCEPT ![p] = Answered(loc[p].handler)]
  /\ StoreFrame
  /\ UNCHANGED <<muReaders, users, templates>>

\* registerHandler, POST: the form's username and password are read.
RegisterStart(p, username, password) ==
  /\ pc[p] = "idle"
  /\ SessionBudget
  /\ pc' = [pc EXCEPT ![p] = "reg_lock"]
  /\ loc' = [loc EXCEPT ![p] = [NoLoc EXCEPT !.handler = "register",
                                             !.user = username, !.arg = password]]
  /\ StoreFrame
  /\ UNCHANGED <<clock, muWriter, muReaders, status, podShared>>

\* Line 203: mu.Lock().
RegLock(p) ==
  /\ pc[p] = "reg_lock"
  /\ MuFree
  /\ muWriter' = p
  /\ pc' = [pc EXCEPT ![p] = "reg_check"]
  /\ StoreFrame
  /\ UNCHANGED <<clock, muReaders, status, pod>>

\* The record registerHandler makes for a new user.
NewUserRec(password) ==
  [Salt |-> genSalt, PassHash |-> hashPassword(genSalt, password), EncContextB64 |-> ""]

\* RegCheck as it would be if the record were stored and newSession called
\* with the mutex still held.
RegCheckHold(p) ==
  /\ pc[p] = "reg_check"
  /\ IF loc[p].user \in DOMAIN users
     THEN /\ pc' = [pc EXCEPT ![p] = "respond"]
          /\ status' = [status EXCEPT ![p] = 200]
          /\ loc' = [loc EXCEPT ![p] = Answered("register")]
          /\ muWriter' = None
          /\ users' = users
     ELSE /\ users' = (loc[p].user :> NewUserRec(loc[p].arg)) @@ users
          /\ pc' = [pc EXCEPT ![p] = "sess_lock"]
          /\ loc' = [loc EXCEPT ![p].arg = ""]
          /\ muWriter' = muWriter
          /\ status' = status
  /\ StoreFrame
  /\ UNCHANGED <<clock, muReaders, sessions, nextSessNum, templates, issued>>

\* RegCheck as it would be without the test of line 204: the record is
\* stored and the session made whether or not the name is taken.
RegCheckOverwrite(p) ==
  /\ pc[p] = "reg_check"
  /\ users' = (loc[p].user :> NewUserRec(loc[p].arg)) @@ users
  /\ pc' = [pc EXCEPT ![p] = "sess_lock"]
  /\ loc' = [loc EXCEPT ![p].arg = ""]
  /\ status' = status
  /\ muWriter' = None
  /\ StoreFrame
  /\ UNCHANGED <<clock, muReaders, sessions, nextSessNum, templates, issued>>

\* Lines 204-216: a taken name unlocks and shows the form with its error;
\* else the record is stored and the mutex released before newSession.
RegCheck(p) ==
  /\ pc[p] = "reg_check"
  /\ IF loc[p].user \in DOMAIN users
     THEN /\ pc' = [pc EXCEPT ![p] = "respond"]
          /\ status' = [status EXCEPT ![p] = 200]
          /\ loc' = [loc EXCEPT ![p] = Answered("register")]
          /\ users' = users
     ELSE /\ users' = (loc[p].user :> NewUserRec(loc[p].arg)) @@ users
          /\ pc' = [pc EXCEPT ![p] = "sess_lock"]
          /\ loc' = [loc EXCEPT ![p].arg = ""]
          /\ status' = status
  /\ muWriter' = None
  /\ StoreFrame
  /\ UNCHANGED <<clock, muReaders, sessions, nextSessNum, templates, issued>>

\* logoutHandler: without a sid cookie the request is redirected at once.
LogoutStart(p, sid) ==
  /\ pc[p] = "idle"
  /\ IF sid = NoSid
     THEN /\ pc' = [pc EXCEPT ![p] = "respond"]
          /\ status' = [status EXCEPT ![p] = 303]
          /\ loc' = [loc EXCEPT ![p] = Answered("logout")]
     ELSE /\ pc' = [pc EXCEPT ![p] = "logout_lock"]
          /\ status' = status
          /\ loc' = [loc EXCEPT ![p] = [NoLoc EXCEPT !.handler = "logout", !.sid = sid]]
  /\ StoreFrame
  /\ UNCHANGED <<clock, muWriter, muReaders, podShared>>

\* Line 237: mu.Lock().
LogoutLock(p) ==
  /\ pc[p] = "logout_lock"
  /\ MuFree
  /\ muWriter' = p
  /\ pc' = [pc EXCEPT ![p] = "logout_del"]
  /\ StoreFrame
  /\ UNCHANGED <<clock, muReaders, status, pod>>

\* LogoutDelete as it would be without the delete of line 238: only the
\* cookie is expired.
LogoutDeleteCookieOnly(p) ==
  /\ pc[p] = "logout_del"
  /\ sessions' = sessions
  /\ muWriter' = None
  /\ pc' = [pc EXCEPT ![p] = "respond"]
  /\ status' = [status EXCEPT ![p] = 303]
  /\ loc' = [loc EXCEPT ![p] = Answered("logout")]
  /\ StoreFrame
  /\ UNCHANGED <<clock, muReaders, users, nextSessNum, templates, issued>>

\* Lines 238-248: delete(sessions, c.Value), mu.Unlock(), redirect to /login.
LogoutDelete(p) ==
  /\ pc[p] = "logout_del"
  /\ sessions' = [id \in DOMAIN sessions \ {loc[p].sid} |-> sessions[id]]
  /\ muWriter' = None
  /\ pc' = [pc EXCEPT ![p] = "respond"]
  /\ status' = [status EXCEPT ![p] = 303]
  /\ loc' = [loc EXCEPT ![p] = Answered("logout")]
  /\ StoreFrame
  /\ UNCHANGED <<clock, muReaders, users, nextSessNum, templates, issued>>

-----------------------------------------------------------------------------
(* pod.go: the page, the saved context, the query and the import *)

\* getUsername: "" without a sid cookie, else sessions[c.Value] read under
\* mu.RLock.
getUsername(sid) == IF sid = NoSid THEN "" ELSE SessionUser(sid)

\* getUsername can return: it takes the read lock only when there is a cookie.
CanGetUsername(sid) == sid = NoSid \/ muWriter = None

\* appHandler, lines 253-271: without a user name the request is sent to
\* /login, or, with bypass=1, given a guest session; with one the record is
\* read next.
AppGet(p, sid, bypass) ==
  /\ pc[p] = "idle"
  /\ CanGetUsername(sid)
  /\ LET username == getUsername(sid)
     IN IF username = "" /\ bypass # "1"
        THEN /\ pc' = [pc EXCEPT ![p] = "respond"]
             /\ status' = [status EXCEPT ![p] = 303]
             /\ loc' = [loc EXCEPT ![p] = Answered("app")]
        ELSE /\ username = "" => SessionBudget
             /\ pc' = [pc EXCEPT ![p] = IF username = "" THEN "sess_lock" ELSE "app_read"]
             /\ status' = status
             /\ loc' = [loc EXCEPT ![p] = [NoLoc EXCEPT !.handler = "app",
                                                         !.user = username]]
  /\ StoreFrame
  /\ UNCHANGED <<clock, muWriter, muReaders, podShared>>

\* Lines 275-290: the user's salt and context are read under mu.RLock and
\* the page is rendered.
AppRead(p) ==
  /\ pc[p] = "app_read"
  /\ muWriter = None
  /\ pc' = [pc EXCEPT ![p] = "respond"]
  /\ status' = [status EXCEPT ![p] = 200]
  /\ loc' = [loc EXCEPT ![p] = Answered("app")]
  /\ StoreFrame
  /\ UNCHANGED <<clock, muWriter, muReaders, podShared>>

\* The request bodies of /api/saveContext: a context, and one that is not JSON.
BadJson == "{"
Payloads == {"ctx", BadJson}

\* saveContextHandler, POST, lines 298-310: a guest is answered 200 and
\* ignored, a body that does not decode 400.
SavePost(p, sid, body) ==
  /\ pc[p] = "idle"
  /\ CanGetUsername(sid)
  /\ LET username == getUsername(sid)
     IN IF username = "" \/ body = BadJson
        THEN /\ pc' = [pc EXCEPT ![p] = "respond"]
             /\ status' = [status EXCEPT ![p] = IF username = "" THEN 200 ELSE 400]
             /\ loc' = [loc EXCEPT ![p] = Answered("save")]
        ELSE /\ pc' = [pc EXCEPT ![p] = "save_lock"]
             /\ status' = status
             /\ loc' = [loc EXCEPT ![p] = [NoLoc EXCEPT !.handler = "save",
                                                         !.user = username, !.arg = body]]
  /\ StoreFrame
  /\ UNCHANGED <<clock, muWriter, muReaders, podShared>>

\* Line 311: mu.Lock().
SaveLock(p) ==
  /\ pc[p] = "save_lock"
  /\ MuFree
  /\ muWriter' = p
  /\ pc' = [pc EXCEPT ![p] = "save_store"]
  /\ StoreFrame
  /\ UNCHANGED <<clock, muReaders, status, pod>>

\* Lines 312-316: the user's record, if there is one, takes the context;
\* mu.Unlock(); 200.
SaveStore(p) ==
  /\ pc[p] = "save_store"
  /\ users' = IF loc[p].user \in DOMAIN users
              THEN [users EXCEPT ![loc[p].user].EncContextB64 = loc[p].arg]
              ELSE users
  /\ muWriter' = None
  /\ pc' = [pc EXCEPT ![p] = "respond"]
  /\ status' = [status EXCEPT ![p] = 200]
  /\ loc' = [loc EXCEPT ![p] = Answered("save")]
  /\ StoreFrame
  /\ UNCHANGED <<clock, muReaders, sessions, nextSessNum, templates, issued>>

\* The query strings of /api/query.
PodQueries == { <<>>, a :> <<x>> }

\* The submissions of /api/query accepted so far or still to be judged.
QueriesUnderway == {p \in Procs : pc[p] = "query_user"} \cup InFlight

\* queryHandler: the sid cookie and r.URL.Query().
QueryStart(p, sid, q) ==
  /\ pc[p] = "idle"
  /\ Len(storedFiles) + Cardinality(QueriesUnderway) < MaxPodFiles
  /\ pc' = [pc EXCEPT ![p] = "query_user"]
  /\ req' = [req EXCEPT ![p] = q]
  /\ loc' = [loc EXCEPT ![p] = [NoLoc EXCEPT !.handler = "query", !.sid = sid]]
  /\ UNCHANGED <<clock, disk, shared, applied, base, todo, result>>
  /\ UNCHANGED <<muWriter, muReaders, status, podShared>>

\* Lines 321-330: without a user name 401; with no query parameter 400;
\* else the parameters go to writeFormFile and indexFile.
QueryUser(p) ==
  /\ pc[p] = "query_user"
  /\ CanGetUsername(loc[p].sid)
  /\ LET username == getUsername(loc[p].sid)
     IN IF username = "" \/ DOMAIN req[p] = {}
        THEN /\ pc' = [pc EXCEPT ![p] = "respond"]
             /\ status' = [status EXCEPT ![p] = IF username = "" THEN 401 ELSE 400]
             /\ req' = [req EXCEPT ![p] = <<>>]
             /\ loc' = [loc EXCEPT ![p] = Answered("query")]
        ELSE /\ pc' = [pc EXCEPT ![p] = "write"]
             /\ status' = status
             /\ req' = req
             /\ loc' = [loc EXCEPT ![p] = [NoLoc EXCEPT !.handler = "query",
                                                         !.user = username]]
  /\ UNCHANGED <<clock, disk, shared, applied, base, todo, result>>
  /\ UNCHANGED <<muWriter, muReaders, podShared>>

\* The uploads of /import: the file's name and content; the empty name
\* stands for a request without the formfile part.
Filenames == {"", "f.html"}
Contents == {"<form>"}

\* fmt.Sprintf of line 374: the content inside a template tag of that name.
Wrapped(name, content) ==
  <<"<template data-name=\"", name, "\">\n", content, "\n</template>">>

\* importHandler, POST: the multipart form is parsed; the sid cookie, if
\* any, comes with the request and is not looked at.
ImportStart(p, sid, name, content) ==
  /\ pc[p] = "idle"
  /\ pc' = [pc EXCEPT ![p] = "import"]
  /\ loc' = [loc EXCEPT ![p] = [NoLoc EXCEPT !.handler = "import", !.sid = sid,
                                             !.arg = content, !.file = name]]
  /\ StoreFrame
  /\ UNCHANGED <<clock, muWriter, muReaders, status, podShared>>

\* Lines 362-382: without the formfile part 400; else the wrapped content is
\* stored under the file's name, templatesMu held for the assignment.
ImportStore(p) ==
  /\ pc[p] = "import"
  /\ IF loc[p].file = ""
     THEN /\ status' = [status EXCEPT ![p] = 400]
          /\ templates' = templates
     ELSE /\ status' = [status EXCEPT ![p] = 200]
          /\ templates' = [f \in DOMAIN templates \cup {loc[p].file} |->
                              IF f = loc[p].file THEN Wrapped(loc[p].file, loc[p].arg)
                              ELSE templates[f]]
  /\ pc' = [pc EXCEPT ![p] = "respond"]
  /\ loc' = [loc EXCEPT ![p] = Answered("import")]
  /\ StoreFrame
  /\ UNCHANGED <<clock, muWriter, muReaders, users, sessions, nextSessNum, issued>>

\* The sid cookies a request may carry: none, or an id newSession returned.
Sids == {NoSid} \cup issued

\* One step of goroutine p in a handler of pod.go that takes mu.
MuStep(p) ==
  \/ \E u \in Usernames, pw \in Passwords : LoginPost(p, u, pw)
  \/ SessLock(p)
  \/ SessNew(p)
  \/ \E u \in Usernames, pw \in NewPasswords : RegisterStart(p, u, pw)
  \/ RegLock(p)
  \/ RegCheck(p)
  \/ \E sid \in Sids : LogoutStart(p, sid)
  \/ LogoutLock(p)
  \/ LogoutDelete(p)
  \/ \E sid \in Sids, bypass \in {"", "1"} : AppGet(p, sid, bypass)
  \/ AppRead(p)
  \/ \E sid \in Sids, body \in Payloads : SavePost(p, sid, body)
  \/ SaveLock(p)
  \/ SaveStore(p)
  \/ \E sid \in Sids, q \in PodQueries : QueryStart(p, sid, q)
  \/ QueryUser(p)
  \/ WriteFormFileOk(p)
  \/ WriteFormFileErr(p)
  \/ IndexLock(p)
  \/ IndexAppend(p)
  \/ IndexKey(p)
  \/ IndexUnlock(p)
  \/ Respond(p)

\* One step of goroutine p of pod.go.
PodStep(p) ==
  \/ MuStep(p)
  \/ \E sid \in Sids, name \in Filenames, content \in Contents : ImportStart(p, sid, name, content)
  \/ ImportStore(p)

\* pod.go serving concurrent requests.
NextPod == \E p \in Procs : PodStep(p)

SpecPod == Init /\ [][NextPod]_vars

\* pod.go under fair scheduling: the Go scheduler runs every runnable
\* goroutine, and a goroutine waiting for the mutex gets it once it has
\* been free often enough (sync.Mutex hands the lock to a starving waiter).
\* importHandler never takes mu (templatesMu guards its one assignment) and
\* is left out of these runs.
NextPodMu == \E p \in Procs : MuStep(p)

SpecPodFair == Init /\ [][NextPodMu]_vars /\ \A p \in Procs : SF_vars(MuStep(p))

-----------------------------------------------------------------------------
(* What a submission puts in the index *)

\* The keys indexFile files a submission under.
KeyEntries(values) == {TrimSpace(k) : k \in DOMAIN values} \ {<<>>}

\* The values indexFile files a submission under: those of its non-blank keys.
ValueEntries(values) ==
  UNION { {TrimSpace(values[k][i]) : i \in 1..Len(values[k])} :
            k \in {kk \in DOMAIN values : TrimSpace(kk) # <<>>} } \ {<<>>}

FilesOf(m, k) == SeqToSet(Lookup(m, k))

\* Submission s has all of its index entries.
Indexed(s) ==
  /\ \A k \in KeyEntries(s.values) : s.id \in FilesOf(keyToFiles, k)
  /\ \A v \in ValueEntries(s.values) : s.id \in FilesOf(valueToFiles, v)

\* Every index entry belongs to a submission storedFiles records.
Owned ==
  /\ \A k \in DOMAIN keyToFiles : \A id \in SeqToSet(keyToFiles[k]) :
       \E i \in 1..Len(applied) :
         /\ applied[i].id = id /\ storedFiles[i] = id
         /\ k \in KeyEntries(applied[i].values)
  /\ \A v \in DOMAIN valueToFiles : \A id \in SeqToSet(valueToFiles[v]) :
       \E i \in 1..Len(applied) :
         /\ applied[i].id = id /\ storedFiles[i] = id
         /\ v \in ValueEntries(applied[i].values)

\* A goroutine is inside filesMatchingQuery's critical section.
ReaderInside(p) == pc[p] \in {"match", "runlock"}

\* A goroutine is inside indexFile's critical section.
WriterInside(p) == pc[p] \in {"append", "keys"}

-----------------------------------------------------------------------------
(* Claims *)

\* C1: whenever a reader is inside filesMatchingQuery, the store holds whole
\* submissions only: every submission storedFiles records (one per indexFile
\* call, in order) has all of its index entries, and every index entry
\* belongs to a recorded submission.
C1_NoHalfApplied ==
  \A p \in Procs : ReaderInside(p) =>
    /\ Len(storedFiles) = Len(applied)
    /\ \A i \in 1..Len(applied) : storedFiles[i] = applied[i].id /\ Indexed(applied[i])
    /\ Owned

\* A reader is inside while a submission is recorded with its entries and
\* another goroutine waits in indexFile for the lock.
C1_Witness ==
  \E p, q \in Procs :
    /\ ReaderInside(p)
    /\ pc[q] = "lock"
    /\ Len(storedFiles) >= 1
    /\ DOMAIN keyToFiles # {}
    /\ DOMAIN valueToFiles # {}

\* C2: storedFiles never holds the same identifier twice.
C2_UniqueIds ==
  \A i, j \in 1..Len(storedFiles) : storedFiles[i] = storedFiles[j] => i = j

\* The query asks for one (key, value) pair of submission s, as submitted.
OwnPairQuery(query, s) ==
  \E k \in DOMAIN s.values : \E i \in 1..Len(s.values[k]) :
    query = (k :> <<s.values[k][i]>>)

\* Submission s holds key k and, under any field, value v.
Shares(s, k, v) == k \in KeyEntries(s.values) /\ v \in ValueEntries(s.values)

\* C3: a match on a pair of a recorded submission that no other recorded
\* submission shares returns that submission's identifier and nothing else,
\* and storedFiles holds one entry per completed submission.
C3_OwnMatchExact ==
  /\ \A p \in Procs : pc[p] = "runlock" =>
       \A i \in 1..Len(applied) :
         ( /\ OwnPairQuery(req[p], applied[i])
           /\ \A j \in 1..Len(applied) : j # i =>
                \A k \in DOMAIN req[p] : ~Shares(applied[j], k, req[p][k][1]) )
         => result[p] = <<applied[i].id>>
  /\ Len(storedFiles) = Len(applied)

\* C4: when no indexFile call is under way, every recorded submission is
\* filed under each of its keys that is not blank (trimmed) and under each
\* non-blank value (trimmed) of such a key.
C4_IndexComplete ==
  muWriter = None =>
    \A i \in 1..Len(applied) :
      LET s == applied[i] IN
      \A k \in DOMAIN s.values :
        TrimSpace(k) # <<>> =>
          /\ s.id \in FilesOf(keyToFiles, TrimSpace(k))
          /\ \A n \in 1..Len(s.values[k]) :
               TrimSpace(s.values[k][n]) # <<>> =>
                 s.id \in FilesOf(valueToFiles, TrimSpace(s.values[k][n]))

\* Two submissions are recorded, one with a padded key and value, one with
\* blank values before a value that counts.
C4_Witness ==
  /\ muWriter = None
  /\ \E i, j \in 1..Len(applied) :
       /\ applied[i].values = (Pad(a) :> <<Pad(x)>>)
       /\ applied[j].values = (a :> <<Blank, <<>>, y>>)
       /\ applied[i].id # applied[j].id

\* The set the query denotes: the files that are, for every queried field,
\* among the field's candidates.
RefCandidates(k, vs) ==
  IF vs = <<>> THEN FilesOf(keyToFiles, k)
  ELSE FilesOf(keyToFiles, k) \cap UNION {FilesOf(valueToFiles, vs[n]) : n \in 1..Len(vs)}

RefMatch(query) ==
  {id \in UNION {FilesOf(keyToFiles, k) : k \in DOMAIN keyToFiles} :
     \A k \in DOMAIN query : id \in RefCandidates(k, query[k])}

\* C5: for a non-empty query, in whatever order its fields are visited, the
\* identifiers returned are exactly those of the intersection of the fields'
\* candidate sets.
C5_MatchIsIntersection ==
  \A p \in Procs :
    (pc[p] = "runlock" /\ DOMAIN req[p] # {}) => SeqToSet(result[p]) = RefMatch(req[p])

\* A two-field query, one field with no value list and one with values, has
\* kept one of two recorded submissions.
C5_Witness ==
  \E p \in Procs :
    /\ pc[p] = "runlock"
    /\ \E k1, k2 \in DOMAIN req[p] : k1 # k2 /\ req[p][k1] = <<>> /\ req[p][k2] # <<>>
    /\ Len(result[p]) = 1
    /\ Cardinality(SeqToSet(storedFiles)) = 2

\* C6: the empty query returns storedFiles, element for element.
C6_EmptyQueryListsAll ==
  \A p \in Procs :
    (pc[p] = "runlock" /\ DOMAIN req[p] = {}) => result[p] = storedFiles

\* The empty query has returned two identifiers.
C6_Witness ==
  \E p \in Procs :
    /\ pc[p] = "runlock" /\ DOMAIN req[p] = {}
    /\ Len(result[p]) = 2 /\ result[p][1] # result[p][2]

RECURSIVE IsSubseq(_, _)
IsSubseq(s, t) ==
  IF s = <<>> THEN TRUE
  ELSE IF t = <<>> THEN FALSE
  ELSE IF Head(s) = Head(t) THEN IsSubseq(Tail(s), Tail(t))
  ELSE IsSubseq(s, Tail(t))

\* C7: every result is a subsequence of storedFiles, in its order.
C7_ResultInStoreOrder ==
  \A p \in Procs : pc[p] = "runlock" => IsSubseq(result[p], storedFiles)

\* A non-empty query has returned two different identifiers.
C7_Witness ==
  \E p \in Procs :
    /\ pc[p] = "runlock" /\ DOMAIN req[p] # {}
    /\ Len(result[p]) = 2 /\ result[p][1] # result[p][2]

\* C8 as claimed: a match on any one (k, v) of a recorded submission, as
\* submitted, includes the submission's identifier.
C8_RoundTripAnyPair ==
  \A p \in Procs : pc[p] = "runlock" =>
    \A i \in 1..Len(applied) :
      OwnPairQuery(req[p], applied[i]) => applied[i].id \in SeqToSet(result[p])

\* The query asks for one (key, value) pair of submission s, trimmed, neither
\* part blank.
TrimmedPairQuery(query, s) ==
  \E k \in DOMAIN s.values : \E n \in 1..Len(s.values[k]) :
    /\ TrimSpace(k) # <<>>
    /\ TrimSpace(s.values[k][n]) # <<>>
    /\ query = (TrimSpace(k) :> <<TrimSpace(s.values[k][n])>>)

\* C8, amended: a match on {trim(k): [trim(v)]}, for a pair (k, v) of a
\* recorded submission whose key and value are not blank, includes the
\* submission's identifier.
C8_RoundTripTrimmed ==
  \A p \in Procs : pc[p] = "runlock" =>
    \A i \in 1..Len(applied) :
      TrimmedPairQuery(req[p], applied[i]) => applied[i].id \in SeqToSet(result[p])

\* A submission with a padded key and value is found by the trimmed pair.
C8_Witness ==
  \E p \in Procs :
    /\ pc[p] = "runlock"
    /\ req[p] = (a :> <<x>>)
    /\ \E i \in 1..Len(applied) :
         /\ applied[i].values = (Pad(a) :> <<Pad(x)>>)
         /\ applied[i].id \in SeqToSet(result[p])

\* Field set g is field set f with the white space around every key and
\* value removed, no key or value of f being blank.
Stripped(f, g) ==
  /\ DOMAIN g = {TrimSpace(k) : k \in DOMAIN f}
  /\ \A k \in DOMAIN f :
       /\ TrimSpace(k) # <<>>
       /\ Len(g[TrimSpace(k)]) = Len(f[k])
       /\ \A n \in 1..Len(f[k]) :
            TrimSpace(f[k][n]) # <<>> /\ g[TrimSpace(k)][n] = TrimSpace(f[k][n])

\* C9: a submission and a submission of the same fields without their
\* surrounding white space make indexFile append to the same keys of
\* keyToFiles and of valueToFiles, and a match on a pair of the stripped one
\* returns both identifiers.
C9_WhitespaceIdempotent ==
  \A i, j \in 1..Len(applied) :
    Stripped(applied[i].values, applied[j].values) =>
      /\ muWriter = None =>
           /\ applied[i].keys = applied[j].keys
           /\ applied[i].vals = applied[j].vals
      /\ \A p \in Procs :
           (pc[p] = "runlock" /\ OwnPairQuery(req[p], applied[j])) =>
             /\ applied[i].id \in SeqToSet(result[p])
             /\ applied[j].id \in SeqToSet(result[p])

\* {" a ": [" x "]} and {"a": ["x"]} are recorded under different
\* identifiers and match({"a": ["x"]}) has returned both.
C9_Witness ==
  \E p \in Procs : \E i, j \in 1..Len(applied) :
    /\ applied[i].values = (Pad(a) :> <<Pad(x)>>)
    /\ applied[j].values = (a :> <<x>>)
    /\ applied[i].id # applied[j].id
    /\ pc[p] = "runlock" /\ req[p] = (a :> <<x>>)
    /\ Len(result[p]) = 2

\* C10: no key of keyToFiles or valueToFiles is empty or carries leading or
\* trailing white space, and between indexFile calls the keys of the two maps
\* are exactly the non-blank trimmed keys, and the non-blank trimmed values
\* under such keys, of the recorded submissions.
C10_NoBlankEntries ==
  /\ \A k \in DOMAIN keyToFiles \cup DOMAIN valueToFiles : k # <<>> /\ TrimSpace(k) = k
  /\ muWriter = None =>
       /\ DOMAIN keyToFiles = UNION {KeyEntries(applied[i].values) : i \in 1..Len(applied)}
       /\ DOMAIN valueToFiles = UNION {ValueEntries(applied[i].values) : i \in 1..Len(applied)}

\* A submission with a blank key and one with blank values are recorded.
C10_Witness ==
  /\ muWriter = None
  /\ \E i, j \in 1..Len(applied) :
       /\ applied[i].values = (Blank :> <<x>>)
       /\ applied[j].values = (a :> <<Blank, <<>>, y>>)

\* The query names a field keyToFiles has no list for, or a field all of
\* whose asked values valueToFiles has no list for.
NamesUnknown(query) ==
  \E qk \in DOMAIN query :
    \/ qk \notin DOMAIN keyToFiles
    \/ /\ Len(query[qk]) > 0
       /\ \A i \in 1..Len(query[qk]) : query[qk][i] \notin DOMAIN valueToFiles

IsPrefix(s, t) == Len(s) <= Len(t) /\ SubSeq(t, 1, Len(s)) = s

\* Map n holds every key of map m, with a list that begins with m's.
OnlyGains(m, n) == \A k \in DOMAIN m : k \in DOMAIN n /\ IsPrefix(m[k], n[k])

\* C12: across every step storedFiles is a prefix of its next value, and
\* every list of keyToFiles and valueToFiles is kept, with the members it
\* had, in the next state.
C12_AppendOnly ==
  [][/\ IsPrefix(storedFiles, storedFiles')
     /\ OnlyGains(keyToFiles, keyToFiles')
     /\ OnlyGains(valueToFiles, valueToFiles')]_vars

\* Two submissions are stored and a key's list and a value's list have each
\* grown from one member to two.
C12_Witness ==
  /\ Len(storedFiles) = 2
  /\ \E k \in DOMAIN keyToFiles : Len(keyToFiles[k]) = 2
  /\ \E v \in DOMAIN valueToFiles : Len(valueToFiles[v]) = 2

\* C13: of two submissions made one after the other, the second starting
\* after the first has returned, the second's identifier differs from the
\* first's and stands later in storedFiles: the calls of indexFile being in
\* submission order here, the identifier of a later call is at its own
\* position and at no earlier one.
C13_LaterIdIsNew ==
  \A i, j \in 1..Len(applied) :
    i < j =>
      /\ Len(storedFiles) >= j => storedFiles[j] = applied[j].id
      /\ applied[j].id # applied[i].id

\* The query asks, under a key of submission s, for a value that s holds
\* under another of its fields and not under that key.
CrossFieldQuery(query, s) ==
  \E k1, k2 \in DOMAIN s.values :
    /\ TrimSpace(k1) # TrimSpace(k2)
    /\ TrimSpace(k1) # <<>> /\ TrimSpace(k2) # <<>>
    /\ \E n \in 1..Len(s.values[k2]) :
         LET v == TrimSpace(s.values[k2][n])
         IN /\ v # <<>>
            /\ \A m \in 1..Len(s.values[k1]) : TrimSpace(s.values[k1][m]) # v
            /\ query = (TrimSpace(k1) :> <<v>>)

\* C19: a match on {a: [y]} returns every recorded submission that holds
\* field a and holds value y under another field only.
C19_ValueMatchIsGlobal ==
  \A p \in Procs :
    pc[p] = "runlock" =>
      \A i \in 1..Len(applied) :
        (CrossFieldQuery(req[p], applied[i]) /\ Indexed(applied[i])) =>
          applied[i].id \in SeqToSet(result[p])

\* {a: [y], b: [x]} is recorded and match({a: [x]}) has returned it.
C19_Witness ==
  \E p \in Procs : \E i \in 1..Len(applied) :
    /\ applied[i].values = (a :> <<y>>) @@ (b :> <<x>>)
    /\ pc[p] = "runlock" /\ req[p] = (a :> <<x>>)
    /\ CrossFieldQuery(req[p], applied[i])
    /\ applied[i].id \in SeqToSet(result[p])

\* C20: on entry to filesMatchingQuery's loop, whatever the store and the
\* query, every order in which the range may visit the query's fields,
\* those that leave the loop early at an empty candidate set included,
\* gives the same result.
C20_OrderIndependent ==
  \A p \in Procs :
    pc[p] = "match" =>
      \A o1, o2 \in Orders(DOMAIN req[p]) :
        filesMatchingQuery(req[p], o1) = filesMatchingQuery(req[p], o2)

\* A two-field query is about to be evaluated, one of whose fields has
\* candidates and the other none: one order leaves the loop at the first
\* field, the other at the second.
C20_Witness ==
  \E p \in Procs :
    /\ pc[p] = "match"
    /\ Cardinality(DOMAIN req[p]) = 2
    /\ \E k1, k2 \in DOMAIN req[p] :
         /\ FieldCandidates(k1, req[p][k1]) = {}
         /\ FieldCandidates(k2, req[p][k2]) # {}

\* C14: no goroutine is in writeFormFile or indexFile with an empty field
\* set, no indexFile call has been made with one, and the step that answers
\* 400 is the handler's first and leaves the disk, storedFiles, keyToFiles
\* and valueToFiles (and the record of indexFile calls) as they were.
C14_EmptyFormRejected ==
  /\ [](\A p \in Procs : p \in InFlight => DOMAIN req[p] # {})
  /\ [](\A i \in 1..Len(applied) : DOMAIN applied[i].values # {})
  /\ [][\A p \in Procs :
         (pc[p] # "respond" /\ pc'[p] = "respond" /\ status'[p] = 400) =>
           /\ pc[p] = "idle"
           /\ UNCHANGED <<disk, shared, applied>>]_vars

\* An empty form has been answered 400 by a store that holds a submission.
C14_Witness ==
  \E p \in Procs :
    /\ pc[p] = "respond" /\ status[p] = 400
    /\ Len(storedFiles) >= 1
    /\ Len(applied) = Len(storedFiles)

\* The positions at which a goroutine waits for mu.Lock() to return.
LockWaits == {"lock", "sess_lock", "reg_lock", "logout_lock", "save_lock"}

\* The positions at which a goroutine holds mu.Lock().
LockHolds == {"append", "keys", "sess_new", "reg_check", "logout_del", "save_store"}

\* C15: under fair scheduling every request a goroutine has taken up is
\* answered and the goroutine is idle again; the goroutine that holds the
\* mutex is at a position inside a critical section, so that it has released
\* the mutex by the time it is idle; and no goroutine waits for the mutex
\* while holding it.
C15_NoHandlerBlocks ==
  /\ \A p \in Procs : (pc[p] # "idle") ~> (pc[p] = "idle")
  /\ [](\A p \in Procs : /\ muWriter = p <=> pc[p] \in LockHolds
                          /\ p \notin muReaders)

\* A goroutine that has stored a new user's record waits in newSession for
\* the mutex another goroutine holds.
C15_Witness ==
  \E p, q \in Procs :
    /\ pc[p] = "sess_lock" /\ loc[p].handler = "register"
    /\ loc[p].user \in DOMAIN users
    /\ muWriter = q /\ q # p

\* C16: when queryHandler has looked at the session of a request that has
\* query parameters, the parameters go on to writeFormFile and indexFile
\* exactly when the request's sid cookie names a session that exists,
\* whether opened by a login or by a guest bypass.
C16_SessionDecidesQuery ==
  [][\A p \in Procs :
       (pc[p] = "query_user" /\ pc'[p] # "query_user" /\ DOMAIN req[p] # {}) =>
         (loc[p].sid \in DOMAIN sessions <=> pc'[p] = "write")]_vars

\* C17: the step of importHandler that answers a request whose sid cookie
\* names no session of a user leaves the template store as it was.
C17_ImportNeedsSession ==
  [][\A p \in Procs :
       (pc[p] = "import" /\ pc'[p] = "respond" /\ getUsername(loc[p].sid) = "") =>
         templates' = templates]_vars

\* The request goroutine p serves carries the sid of a guest session.
UnderGuestSession(p) ==
  loc[p].sid \in DOMAIN sessions /\ sessions[loc[p].sid] = ""

\* C18: a step of a handler serving a request under a guest session leaves
\* the user records with their contexts, the form index and the template
\* store as they were.
C18_GuestPersistsNothing ==
  [][\A p \in Procs :
       (UnderGuestSession(p) /\ pc'[p] # pc[p]) =>
         UNCHANGED <<users, shared, templates>>]_vars

\* Goroutine p is in filesMatchingQuery, from mu.RLock() to its return.
InMatch(p) == pc[p] \in {"rlock", "match", "runlock"}

\* Goroutine p holds the list filesMatchingQuery has built or returned.
HoldsResult(p) == pc[p] \in {"runlock", "respond"}

\* C21: no step of a goroutine inside filesMatchingQuery changes
\* storedFiles, keyToFiles or valueToFiles, whatever its query; the empty
\* query's list is storedFiles element for element; and a list, once
\* built, stays as it is while its goroutine holds it, whatever the other
\* goroutines append meanwhile.
C21_MatchIsPure ==
  [][\A p \in Procs :
       /\ (InMatch(p) /\ pc'[p] # pc[p]) =>
            UNCHANGED <<storedFiles, keyToFiles, valueToFiles>>
       /\ (pc[p] = "match" /\ pc'[p] = "runlock" /\ DOMAIN req[p] = {}) =>
            result'[p] = storedFiles
       /\ (HoldsResult(p) /\ HoldsResult(p)') => result'[p] = result[p]]_vars

\* The empty query has returned a list of one identifier, and another
\* submission has been appended before the list is rendered.
C21_Witness ==
  \E p \in Procs :
    /\ pc[p] = "respond" /\ DOMAIN req[p] = {}
    /\ Len(result[p]) = 1
    /\ Len(storedFiles) = 2
    /\ result[p] = SubSeq(storedFiles, 1, 1)

\* C22: a goroutine inside indexFile's critical section holds mu.Lock() and
\* no other goroutine is inside indexFile's or filesMatchingQuery's; a
\* goroutine inside filesMatchingQuery's holds mu.RLock(); and a step that
\* changes storedFiles, keyToFiles or valueToFiles is taken with the write
\* lock held by a goroutine inside indexFile.
C22_LockDiscipline ==
  /\ [](\A p \in Procs :
          /\ WriterInside(p) =>
               /\ muWriter = p /\ muReaders = {}
               /\ \A q \in Procs \ {p} : ~WriterInside(q) /\ ~ReaderInside(q)
          /\ ReaderInside(p) => p \in muReaders /\ muWriter = None)
  /\ [][shared' # shared => muWriter # None /\ muWriter' = muWriter /\ WriterInside(muWriter)]_vars

\* Two goroutines are inside filesMatchingQuery at once, over a store that
\* holds a submission.
C22_Witness ==
  \E p, q \in Procs :
    /\ p # q
    /\ ReaderInside(p) /\ ReaderInside(q)
    /\ muReaders = {p, q}
    /\ Len(storedFiles) >= 1

\* Every value of a field set that is not blank, trimmed, whatever the name
\* of its field.
AllValues(values) ==
  UNION { {TrimSpace(values[k][i]) : i \in 1..Len(values[k])} : k \in DOMAIN values } \ {<<>>}

\* C23, as stated: between indexFile calls every recorded submission is in
\* valueToFiles under each of its non-blank trimmed values, those listed
\* under a blank field name included.
C23_EveryValueIndexed ==
  muWriter = None =>
    \A i \in 1..Len(applied) : \A v \in AllValues(applied[i].values) :
      applied[i].id \in FilesOf(valueToFiles, v)

\* C23, amended: an indexFile call appends its identifier to valueToFiles
\* under exactly the non-blank trimmed values of the fields whose name is
\* not blank; the values of a blank field name are skipped with the name.
C23_ValuesOfNamedFields ==
  muWriter = None =>
    \A i \in 1..Len(applied) :
      /\ applied[i].vals = ValueEntries(applied[i].values)
      /\ \A v \in ValueEntries(applied[i].values) :
           applied[i].id \in FilesOf(valueToFiles, v)

\* A submission with a value under a blank name has been indexed under no
\* value, and one with two values under a name under both.
C23_Witness ==
  /\ muWriter = None
  /\ \E i, j \in 1..Len(applied) :
       /\ applied[i].values = (Blank :> <<x>>) /\ applied[i].vals = {}
       /\ applied[j].values = (b :> <<x, y>>) /\ applied[j].vals = {x, y}

\* C24: every identifier in storedFiles, and every identifier in a list
\* filesMatchingQuery has built, names a file that was created; a file is
\* created by a goroutine in writeFormFile that does not hold the mutex, on
\* its way to indexFile; and the step in which writeFormFile fails answers
\* 500 and leaves storedFiles, keyToFiles and valueToFiles (and the record of
\* indexFile calls) as they were.
C24_WrittenBeforePublished ==
  /\ [](\A i \in 1..Len(storedFiles) : storedFiles[i] \in disk)
  /\ [](\A p \in Procs : HoldsResult(p) => SeqToSet(result[p]) \subseteq disk)
  /\ [][/\ disk' # disk =>
            \E p \in Procs : pc[p] = "write" /\ pc'[p] = "lock" /\ muWriter # p
        /\ storedFiles' # storedFiles => storedFiles'[Len(storedFiles')] \in disk
        /\ \A p \in Procs :
             (pc[p] = "write" /\ pc'[p] = "respond") =>
               status'[p] = 500 /\ UNCHANGED <<disk, shared, applied>>]_vars

\* One submission is stored with its file, a later writeFormFile has
\* failed and been answered 500, and a match has returned the stored one.
C24_Witness ==
  \E p, q \in Procs :
    /\ pc[p] = "respond" /\ status[p] = 500
    /\ Len(storedFiles) = 1 /\ storedFiles[1] \in disk
    /\ Len(applied) = 1
    /\ pc[q] = "runlock" /\ result[q] = storedFiles

\* C25: the step in which newSession stores a session gives it an
\* identifier that is not in sessions and that no earlier call has
\* returned, binds it to the caller's username and leaves every session
\* there was bound as it was; so the calls so far have returned as many
\* identifiers as there were calls.
C25_SessionIdsUnique ==
  /\ [](Cardinality(issued) = nextSessNum - 1)
  /\ [](DOMAIN sessions \subseteq issued)
  /\ [][\A p \in Procs :
         (pc[p] = "sess_new" /\ pc'[p] = "respond") =>
           /\ \E id \in DOMAIN sessions' \ (DOMAIN sessions \cup issued) :
                /\ DOMAIN sessions' = DOMAIN sessions \cup {id}
                /\ sessions'[id] = loc[p].user
           /\ \A sid \in DOMAIN sessions : sessions'[sid] = sessions[sid]]_vars

\* Two sessions, a user's and a guest's, are open with identifiers made
\* from the same clock reading.
C25_Witness ==
  \E s1, s2 \in DOMAIN sessions :
    /\ s1 # s2
    /\ s1[1] = s2[1]
    /\ sessions[s1] = "" /\ sessions[s2] # ""

\* A goroutine of registerHandler that has stored its record and has not
\* yet answered.
Registering(p) ==
  /\ loc[p].handler = "register"
  /\ pc[p] \in {"sess_lock", "sess_new"}

\* C26: the step in which registerHandler tests the name, when the name is
\* taken, changes neither users nor sessions and ends the request with no
\* session to come; when the name is free it stores the record, which
\* makes the name taken.  A name once taken stays taken with the salt and
\* password hash it was registered with, so no two goroutines are ever
\* both past the test for one name.
C26_TakenNameRejected ==
  /\ [](\A p, q \in Procs :
          (p # q /\ Registering(p) /\ Registering(q)) => loc[p].user # loc[q].user)
  /\ [](\A p \in Procs : Registering(p) => loc[p].user \in DOMAIN users)
  /\ [][\A p \in Procs :
         (pc[p] = "reg_check" /\ pc'[p] # "reg_check") =>
           IF loc[p].user \in DOMAIN users
           THEN /\ UNCHANGED <<users, sessions, nextSessNum, issued>>
                /\ pc'[p] = "respond"
                /\ status'[p] = 200
           ELSE /\ pc'[p] = "sess_lock"
                /\ DOMAIN users' = DOMAIN users \cup {loc[p].user}
                /\ \A u \in DOMAIN users : users'[u] = users[u]]_vars
  /\ [][\A u \in DOMAIN users :
         /\ u \in DOMAIN users'
         /\ users'[u].Salt = users[u].Salt
         /\ users'[u].PassHash = users[u].PassHash
         /\ (\A p \in Procs : pc[p] # "save_store") =>
              users'[u].EncContextB64 = users[u].EncContextB64]_vars

\* Two registrations of one new name ran together: one has been answered
\* with the form and its error while the other, whose record is stored,
\* has not yet made its session, and no session is bound to the name.
C26_Witness ==
  \E p, q \in Procs :
    /\ p # q
    /\ pc[p] = "respond" /\ loc[p].handler = "register" /\ status[p] = 200
    /\ Registering(q)
    /\ loc[q].user \in DOMAIN users
    /\ \A sid \in DOMAIN sessions : sessions[sid] # loc[q].user

\* The identifiers that were returned by newSession and are no longer in
\* sessions.
LoggedOut == issued \ DOMAIN sessions

\* C27: the step in which logoutHandler deletes removes the identifier of
\* its cookie from sessions and leaves every other session bound as it
\* was; a session leaves the table in no other way; an identifier that has
\* left never comes back, getUsername returns "" for it, and a query that
\* carries it is answered 401.
C27_LogoutDestroysSession ==
  /\ [](\A sid \in LoggedOut : getUsername(sid) = "")
  /\ [][\A p \in Procs :
         (pc[p] = "logout_del" /\ pc'[p] # "logout_del") =>
           /\ loc[p].sid \notin DOMAIN sessions'
           /\ DOMAIN sessions' = DOMAIN sessions \ {loc[p].sid}
           /\ \A sid \in DOMAIN sessions' : sessions'[sid] = sessions[sid]
           /\ UNCHANGED <<users, issued, nextSessNum>>]_vars
  /\ [][\A sid \in DOMAIN sessions :
         sid \notin DOMAIN sessions' =>
           \E p \in Procs : pc[p] = "logout_del" /\ loc[p].sid = sid]_vars
  /\ [][\A sid \in LoggedOut : sid \notin DOMAIN sessions']_vars
  /\ [][\A p \in Procs :
         (pc[p] = "query_user" /\ pc'[p] # "query_user" /\ loc[p].sid \in LoggedOut) =>
           (pc'[p] = "respond" /\ status'[p] = 401)]_vars

\* A session has been logged out and a query carrying its identifier is
\* about to ask for its user name, while a user's session made before it
\* is still open.
C27_Witness ==
  \E s1 \in LoggedOut, s2 \in DOMAIN sessions, p \in Procs :
    /\ s2[2] < s1[2]
    /\ sessions[s2] # ""
    /\ pc[p] = "query_user" /\ loc[p].sid = s1

====
